---- MODULE Spec2Model ----
(***************************************************************************)
(* A model of unirbac-js' core: the permission matcher (Permission.match), *)
(* the role and policy registries of RBACEngine, the inheritance resolver  *)
(* (getPermissions), the resolver of the alternate engine (resolveRoles)   *)
(* and the decision pipeline (can).                                        *)
(*                                                                         *)
(* Specifications: SpecMatch (match on generated strings), SpecResolve     *)
(* (one resolution, stepped), SpecCan and SpecLevels (one call against     *)
(* every registry), SpecCalls (calls in flight together), SpecSeq (calls   *)
(* awaited one by one between registrations) and Spec (everything          *)
(* interleaved).                                                           *)
(*                                                                         *)
(* A JavaScript string is modelled as the sequence of its characters, so   *)
(* that String.prototype.split is computed and not assumed.                *)
(***************************************************************************)
EXTENDS Integers, Sequences, FiniteSets, TLC

VARIABLES
    \* Permission.match applied to one pair of strings (SpecMatch)
    psegs, qsegs, delim,     \* how the two input strings were built
    pattern, permission,     \* the arguments of Permission.match
    mpc, matchResult,        \* "input" / "done", and the value returned
    \* RBACEngine
    roles,                   \* this.roles: Map<string, Role>
    policies,                \* this.policies: Map<string, PolicyFn>
    calls,                   \* the can calls suspended at `await policy(...)`
    last,                    \* the can call that settled most recently
    \* history
    decided,                 \* per call, what the registries gave when it began
    \* one run of getPermissions, one visited() call at a time (SpecResolve)
    rsubject,                \* the subject argument
    rst,                     \* prms, visitedRoles and the pending visited() calls
    rpc,                     \* "run" / "done"
    reffective               \* the set returned

matchVars == <<psegs, qsegs, delim, pattern, permission, mpc, matchResult>>
engineVars == <<roles, policies, calls, last, decided>>
resolveVars == <<rsubject, rst, rpc, reffective>>

vars == <<psegs, qsegs, delim, pattern, permission, mpc, matchResult,
          roles, policies, calls, last, decided,
          rsubject, rst, rpc, reffective>>

-----------------------------------------------------------------------------
(* Bounds of the model *)

\* the largest number of segments of a generated pattern or permission
MaxSegs == 3

\* the longest inherits list of a generated role
MaxInherits == 2

\* the longest subject.roles list of a generated subject
MaxRoots == 2

\* the largest number of can calls suspended together
MaxCalls == 2

-----------------------------------------------------------------------------
(* Strings *)

Colon == ":"
Dot == "."
Star == <<"*">>
StarStar == <<"*", "*">>
Empty == <<>>

\* what indexing an array past its end yields
Undefined == <<"undefined">>

\* !x for x a string or undefined
Falsy(x) == x = Undefined \/ x = Empty

\* an array is an object: always truthy
Truthy(array) == TRUE

\* all sequences over S of length lo..hi
SeqsOf(S, lo, hi) == UNION {[1..n -> S] : n \in lo..hi}

\* segs.join(d)
RECURSIVE Join(_, _)
Join(segs, d) ==
    IF Len(segs) = 0 THEN <<>>
    ELSE IF Len(segs) = 1 THEN segs[1]
    ELSE segs[1] \o <<d>> \o Join(Tail(segs), d)

\* s.split(d) for a one-character separator d
RECURSIVE Split(_, _)
Split(s, d) ==
    IF \A i \in 1..Len(s) : s[i] # d THEN <<s>>
    ELSE LET i == CHOOSE k \in 1..Len(s) :
                      s[k] = d /\ \A j \in 1..(k - 1) : s[j] # d
         IN  <<SubSeq(s, 1, i - 1)>> \o Split(SubSeq(s, i + 1, Len(s)), d)

-----------------------------------------------------------------------------
(* Permission.match *)

\* array[i], 1-based here
At(array, i) == IF i \in 1..Len(array) THEN array[i] ELSE Undefined

\* pattern.split(':') || pattern.split('.')
SplitParts(s) ==
    LET byColon == Split(s, Colon)
    IN  IF Truthy(byColon) THEN byColon ELSE Split(s, Dot)

\* the for loop of Permission.match from index i on, and the final return
RECURSIVE MatchLoop(_, _, _)
MatchLoop(patternParts, permissionParts, i) ==
    IF i > Len(patternParts)
    THEN Len(permissionParts) = Len(patternParts)
    ELSE LET patternPart == At(patternParts, i)
             permissionPart == At(permissionParts, i)
         IN  IF patternPart = StarStar THEN TRUE
             ELSE IF patternPart = Star
                  THEN MatchLoop(patternParts, permissionParts, i + 1)
             ELSE IF Falsy(permissionPart) THEN FALSE
             ELSE IF patternPart # permissionPart THEN FALSE
             ELSE MatchLoop(patternParts, permissionParts, i + 1)

Match(pat, perm) ==
    IF pat = perm THEN TRUE
    ELSE MatchLoop(SplitParts(pat), SplitParts(perm), 1)

-----------------------------------------------------------------------------
(* Values: optional fields, arrays, Maps *)

\* An optional field (inherits?: string[], permissions?: PermissionName[]) is
\* a field the record has or lacks. OptArray is the array iterated where the
\* source iterates an optional one: x.f?.forEach(...), new Set(x.f)
OptArray(record, field) ==
    IF field \in DOMAIN record THEN record[field] ELSE <<>>

\* the elements of an array
ToSet(array) == {array[i] : i \in 1..Len(array)}

\* new Map()
EmptyMap == <<>>

\* map.has(key)
MapHas(map, key) == key \in DOMAIN map

\* map.set(key, value)
MapSet(map, key, value) ==
    [k \in (DOMAIN map) \cup {key} |-> IF k = key THEN value ELSE map[k]]

-----------------------------------------------------------------------------
(* RBACEngine.getPermissions *)

\* the state of one run: prms and visitedRoles of the source; stack holds the
\* role names of the visited() calls still to be made, in the order the
\* nested forEach loops make them; expanded logs the names that passed the
\* visitedRoles check, in order
ResolverStart(subject) ==
    [prms |-> ToSet(OptArray(subject, "permissions")),
     visitedRoles |-> {},
     stack |-> subject.roles,
     expanded |-> <<>>]

\* visited() that does not descend into role.inherits
VisitedCallNoInherits(rolesMap, st) ==
    LET roleName == Head(st.stack)
        rest == Tail(st.stack)
    IN  IF roleName \in st.visitedRoles
        THEN [st EXCEPT !.stack = rest]
        ELSE LET marked == [st EXCEPT !.visitedRoles = @ \cup {roleName},
                                      !.expanded = Append(@, roleName)]
             IN  IF MapHas(rolesMap, roleName)
                 THEN [marked EXCEPT
                         !.prms = @ \cup ToSet(rolesMap[roleName].permissions),
                         !.stack = rest]
                 ELSE [marked EXCEPT !.stack = rest]

\* visited() that never records the role name in visitedRoles
VisitedCallNoMark(rolesMap, st) ==
    LET roleName == Head(st.stack)
        rest == Tail(st.stack)
    IN  IF roleName \in st.visitedRoles
        THEN [st EXCEPT !.stack = rest]
        ELSE LET marked == [st EXCEPT !.expanded = Append(@, roleName)]
             IN  IF MapHas(rolesMap, roleName)
                 THEN LET role == rolesMap[roleName]
                      IN  [marked EXCEPT
                             !.prms = @ \cup ToSet(role.permissions),
                             !.stack = OptArray(role, "inherits") \o rest]
                 ELSE [marked EXCEPT !.stack = rest]

\* visited() that gives up the whole traversal at an unregistered role name
VisitedCallStopAtUnknown(rolesMap, st) ==
    LET roleName == Head(st.stack)
        rest == Tail(st.stack)
    IN  IF roleName \in st.visitedRoles
        THEN [st EXCEPT !.stack = rest]
        ELSE LET marked == [st EXCEPT !.visitedRoles = @ \cup {roleName},
                                      !.expanded = Append(@, roleName)]
             IN  IF MapHas(rolesMap, roleName)
                 THEN LET role == rolesMap[roleName]
                      IN  [marked EXCEPT
                             !.prms = @ \cup ToSet(role.permissions),
                             !.stack = OptArray(role, "inherits") \o rest]
                 ELSE [marked EXCEPT !.stack = <<>>]

\* visited() that takes the strings of role.denies out of prms
VisitedCallDenies(rolesMap, st) ==
    LET roleName == Head(st.stack)
        rest == Tail(st.stack)
    IN  IF roleName \in st.visitedRoles
        THEN [st EXCEPT !.stack = rest]
        ELSE LET marked == [st EXCEPT !.visitedRoles = @ \cup {roleName},
                                      !.expanded = Append(@, roleName)]
             IN  IF MapHas(rolesMap, roleName)
                 THEN LET role == rolesMap[roleName]
                      IN  [marked EXCEPT
                             !.prms = (@ \cup ToSet(role.permissions))
                                      \ ToSet(OptArray(role, "denies")),
                             !.stack = OptArray(role, "inherits") \o rest]
                 ELSE [marked EXCEPT !.stack = rest]

\* one call visited(roleName), for the next pending role name
VisitedCall(rolesMap, st) ==
    LET roleName == Head(st.stack)
        rest == Tail(st.stack)
    IN  IF roleName \in st.visitedRoles
        THEN [st EXCEPT !.stack = rest]
        ELSE LET marked == [st EXCEPT !.visitedRoles = @ \cup {roleName},
                                      !.expanded = Append(@, roleName)]
             IN  IF MapHas(rolesMap, roleName)
                 THEN LET role == rolesMap[roleName]
                      IN  [marked EXCEPT
                             !.prms = @ \cup ToSet(role.permissions),
                             !.stack = OptArray(role, "inherits") \o rest]
                 ELSE [marked EXCEPT !.stack = rest]

\* subject.roles.forEach(visited), to its end
RECURSIVE RunVisited(_, _)
RunVisited(rolesMap, st) ==
    IF st.stack = <<>> THEN st
    ELSE RunVisited(rolesMap, VisitedCall(rolesMap, st))

\* getPermissions that gives a subject without roles the role 'viewer'
getPermissionsDefaultRole(rolesMap, subject) ==
    LET start == ResolverStart(subject)
    IN  RunVisited(rolesMap,
                   IF subject.roles = <<>>
                   THEN [start EXCEPT !.stack = <<"viewer">>]
                   ELSE start).prms

getPermissions(rolesMap, subject) ==
    RunVisited(rolesMap, ResolverStart(subject)).prms

-----------------------------------------------------------------------------
(* The alternate engine: resolvePermissions over resolveRoles *)

\* the state of one run of resolveRoles: visited and roles of the source;
\* stack holds what is still to be done, in order: a call visit(name), or the
\* roles.push(role) that ends a call once its inherits have been visited
ResolveRolesStart(roleNames) ==
    [visited |-> {},
     roles |-> <<>>,
     stack |-> [i \in 1..Len(roleNames) |->
                  [do |-> "visit", name |-> roleNames[i]]]]

\* the next item of the stack: visit(name) up to its forEach, or the push
VisitCall(rolesMap, st) ==
    LET item == Head(st.stack)
        rest == Tail(st.stack)
    IN  IF item.do = "push"
        THEN [st EXCEPT !.roles = Append(@, rolesMap[item.name]),
                        !.stack = rest]
        ELSE IF item.name \in st.visited
        THEN [st EXCEPT !.stack = rest]
        ELSE LET marked == [st EXCEPT !.visited = @ \cup {item.name}]
             IN  IF ~MapHas(rolesMap, item.name)
                 THEN [marked EXCEPT !.stack = rest]
                 ELSE LET inherits == OptArray(rolesMap[item.name], "inherits")
                          visits == [i \in 1..Len(inherits) |->
                                       [do |-> "visit", name |-> inherits[i]]]
                      IN  [marked EXCEPT
                             !.stack = visits
                                       \o <<[do |-> "push", name |-> item.name]>>
                                       \o rest]

RECURSIVE RunVisit(_, _)
RunVisit(rolesMap, st) ==
    IF st.stack = <<>> THEN st
    ELSE RunVisit(rolesMap, VisitCall(rolesMap, st))

\* array.sort((a, b) => b.level - a.level): by level, highest first, roles of
\* equal level in the order they had (the sort is stable)
RECURSIVE SortByLevel(_)
SortByLevel(array) ==
    IF array = <<>> THEN <<>>
    ELSE LET sorted == SortByLevel(SubSeq(array, 1, Len(array) - 1))
             role == array[Len(array)]
             before == SelectSeq(sorted, LAMBDA a : a.level >= role.level)
             after == SelectSeq(sorted, LAMBDA a : a.level < role.level)
         IN  before \o <<role>> \o after

\* resolveRoles that returns the roles of the highest level only
resolveRolesTopLevel(rolesMap, roleNames) ==
    LET sorted == SortByLevel(RunVisit(rolesMap, ResolveRolesStart(roleNames)).roles)
    IN  SelectSeq(sorted, LAMBDA a : a.level = sorted[1].level)

resolveRoles(rolesMap, roleNames) ==
    SortByLevel(RunVisit(rolesMap, ResolveRolesStart(roleNames)).roles)

resolvePermissions(rolesMap, subject) ==
    LET resolvedRoles == resolveRoles(rolesMap, subject.roles)
    IN  ToSet(OptArray(subject, "permissions"))
        \cup UNION {ToSet(resolvedRoles[i].permissions) :
                      i \in 1..Len(resolvedRoles)}
        \cup ToSet(OptArray(subject, "permissions"))

-----------------------------------------------------------------------------
(* Policy predicates *)

\* The predicates a caller registers, named; each is a PolicyFn:
\*   ownerOnly  ({subject, context}) => context.ownerId === subject.id
\*   throws     a predicate that throws before returning
\*   rejects    an async predicate whose promise rejects
PolicyFns == {"ownerOnly", "throws", "rejects"}

\* how the call policy({subject, context}) completes: "true" or "false" (the
\* boolean, returned or as the value of the promise returned), "throw" (the
\* call throws) or "reject" (the promise returned rejects)
PolicyCall(fn, subject, context) ==
    CASE fn = "ownerOnly" ->
            IF "ownerId" \in DOMAIN context /\ context.ownerId = subject.id
            THEN "true" ELSE "false"
      [] fn = "throws" -> "throw"
      [] OTHER -> "reject"

-----------------------------------------------------------------------------
(* RBACEngine.can *)

\* the three Authorization values
NotFound(perm) ==
    [allowed |-> FALSE,
     reason |-> "Permission not found in subject roles/permissions",
     permission |-> perm]

Allowed(perm) == [allowed |-> TRUE, permission |-> perm]

DeniedByPolicy(perm) ==
    [allowed |-> FALSE, reason |-> "Access denied by policy",
     permission |-> perm]

\* A can call: its arguments, its locals matchedPermission and policy (<<>>
\* for undefined), the predicate calls it has made (invoked), the completion
\* it awaits and where it stands: "awaiting" (suspended at line 45),
\* "returned" (its promise fulfilled with result) or "failed" (its promise
\* rejected)
Frame(state, subject, perm, context, matched, policy, invoked, awaited, result) ==
    [state |-> state, subject |-> subject, permission |-> perm,
     context |-> context, matchedPermission |-> matched, policy |-> policy,
     invoked |-> invoked, awaited |-> awaited, result |-> result]

\* can that calls the predicate before it looks at matchedPermission
CanSyncPolicyFirst(rolesMap, policiesMap, subject, perm, context) ==
    LET permissions == getPermissions(rolesMap, subject)
        matchedPermission == \E p \in permissions : Match(p, perm)
    IN  IF MapHas(policiesMap, perm)
        THEN LET policy == policiesMap[perm]
                 completion == PolicyCall(policy, subject, context)
                 invoked == <<[key |-> perm, fn |-> policy]>>
             IN  IF completion = "throw"
                 THEN Frame("failed", subject, perm, context,
                            matchedPermission, <<policy>>, invoked, "none",
                            <<>>)
                 ELSE IF ~matchedPermission
                 THEN Frame("returned", subject, perm, context, FALSE,
                            <<policy>>, invoked, "none", <<NotFound(perm)>>)
                 ELSE Frame("awaiting", subject, perm, context, TRUE,
                            <<policy>>, invoked, completion, <<>>)
        ELSE IF ~matchedPermission
        THEN Frame("returned", subject, perm, context, FALSE, <<>>, <<>>,
                   "none", <<NotFound(perm)>>)
        ELSE Frame("returned", subject, perm, context, TRUE, <<>>, <<>>,
                   "none", <<Allowed(perm)>>)

\* can that falls back, when no policy is registered under the requested
\* string, on a policy registered under a granted pattern that matched
CanSyncByPattern(rolesMap, policiesMap, subject, perm, context) ==
    LET permissions == getPermissions(rolesMap, subject)
        matchedPermission == \E p \in permissions : Match(p, perm)
        keyed == {p \in permissions : Match(p, perm) /\ MapHas(policiesMap, p)}
        key == IF MapHas(policiesMap, perm) \/ keyed = {}
               THEN perm ELSE CHOOSE p \in keyed : TRUE
    IN  IF ~matchedPermission
        THEN Frame("returned", subject, perm, context, FALSE, <<>>, <<>>,
                   "none", <<NotFound(perm)>>)
        ELSE IF MapHas(policiesMap, key)
        THEN LET policy == policiesMap[key]
                 completion == PolicyCall(policy, subject, context)
                 invoked == <<[key |-> key, fn |-> policy]>>
             IN  IF completion = "throw"
                 THEN Frame("failed", subject, perm, context, TRUE,
                            <<policy>>, invoked, "none", <<>>)
                 ELSE Frame("awaiting", subject, perm, context, TRUE,
                            <<policy>>, invoked, completion, <<>>)
        ELSE Frame("returned", subject, perm, context, TRUE, <<>>, <<>>,
                   "none", <<Allowed(perm)>>)

\* can, from its entry to its first return, throw or suspension
CanSync(rolesMap, policiesMap, subject, perm, context) ==
    LET permissions == getPermissions(rolesMap, subject)
        matchedPermission == \E p \in permissions : Match(p, perm)
    IN  IF ~matchedPermission
        THEN Frame("returned", subject, perm, context, FALSE, <<>>, <<>>,
                   "none", <<NotFound(perm)>>)
        ELSE IF MapHas(policiesMap, perm)
        THEN LET policy == policiesMap[perm]
                 completion == PolicyCall(policy, subject, context)
                 invoked == <<[key |-> perm, fn |-> policy]>>
             IN  IF completion = "throw"
                 THEN Frame("failed", subject, perm, context, TRUE,
                            <<policy>>, invoked, "none", <<>>)
                 ELSE Frame("awaiting", subject, perm, context, TRUE,
                            <<policy>>, invoked, completion, <<>>)
        ELSE Frame("returned", subject, perm, context, TRUE, <<>>, <<>>,
                   "none", <<Allowed(perm)>>)

\* can that allows whenever the predicate completes without failing
CanResumeIgnoresValue(frame) ==
    IF frame.awaited = "reject"
    THEN [frame EXCEPT !.state = "failed"]
    ELSE [frame EXCEPT !.state = "returned",
                       !.result = <<Allowed(frame.permission)>>]

\* can that catches a rejected predicate and denies
CanResumeCatches(frame) ==
    IF frame.awaited = "true"
    THEN [frame EXCEPT !.state = "returned",
                       !.result = <<Allowed(frame.permission)>>]
    ELSE [frame EXCEPT !.state = "returned",
                       !.result = <<DeniedByPolicy(frame.permission)>>]

\* can that, resumed, matches the request once more against the permissions
\* the registry gives by then
CanResumeRechecks(frame) ==
    IF frame.awaited = "reject"
    THEN [frame EXCEPT !.state = "failed"]
    ELSE IF ~\E p \in getPermissions(roles, frame.subject) :
                Match(p, frame.permission)
    THEN [frame EXCEPT !.state = "returned",
                       !.result = <<NotFound(frame.permission)>>]
    ELSE IF frame.awaited = "true"
    THEN [frame EXCEPT !.state = "returned",
                       !.result = <<Allowed(frame.permission)>>]
    ELSE [frame EXCEPT !.state = "returned",
                       !.result = <<DeniedByPolicy(frame.permission)>>]

\* can, resumed when the awaited completion arrives
CanResume(frame) ==
    IF frame.awaited = "reject"
    THEN [frame EXCEPT !.state = "failed"]
    ELSE IF frame.awaited = "true"
    THEN [frame EXCEPT !.state = "returned",
                       !.result = <<Allowed(frame.permission)>>]
    ELSE [frame EXCEPT !.state = "returned",
                       !.result = <<DeniedByPolicy(frame.permission)>>]

\* can, from its entry to the settling of the promise it returns
Decide(rolesMap, policiesMap, subject, perm, context) ==
    LET frame == CanSync(rolesMap, policiesMap, subject, perm, context)
    IN  IF frame.state = "awaiting" THEN CanResume(frame) ELSE frame

-----------------------------------------------------------------------------
(* What the registries give a call: the specification's decision *)

\* the role names reachable from the names in X by following the inherits
\* lists of registered roles, zero or more steps
RECURSIVE Reach(_, _)
Reach(rolesMap, X) ==
    LET next == X \cup UNION {ToSet(OptArray(rolesMap[r], "inherits")) :
                                r \in {x \in X : MapHas(rolesMap, x)}}
    IN  IF next = X THEN X ELSE Reach(rolesMap, next)

EffectiveSet(rolesMap, subject) ==
    ToSet(OptArray(subject, "permissions"))
    \cup UNION {ToSet(rolesMap[r].permissions) :
                  r \in {x \in Reach(rolesMap, ToSet(subject.roles)) :
                           MapHas(rolesMap, x)}}

\* what a call is to come to, given the registries: "notfound" when no pattern
\* of the effective set matches the request, else "allowed" when no policy is
\* registered under the request or its predicate yields true, "denied" when
\* it yields false, "failed" when it throws or rejects
Expected(rolesMap, policiesMap, subject, perm, context) ==
    IF ~\E p \in EffectiveSet(rolesMap, subject) : Match(p, perm)
    THEN "notfound"
    ELSE IF ~MapHas(policiesMap, perm) THEN "allowed"
    ELSE LET completion == PolicyCall(policiesMap[perm], subject, context)
         IN  CASE completion = "true" -> "allowed"
               [] completion = "false" -> "denied"
               [] OTHER -> "failed"

\* what a settled call came to
Outcome(frame) ==
    IF frame.state = "failed" THEN "failed"
    ELSE IF frame.result[1].allowed THEN "allowed"
    ELSE IF frame.result[1] = NotFound(frame.permission) THEN "notfound"
    ELSE "denied"

-----------------------------------------------------------------------------
(* Values the specifications draw from *)

PostRead == <<"p", ":", "r">>
PostEdit == <<"p", ":", "e">>
PostDelete == <<"p", ":", "d">>
PostAny == <<"p", ":", "*">>
SpecialAction == <<"s", ":", "a">>

RoleNames == {"viewer", "editor", "admin"}

\* what each generated role grants
GrantOf(name) ==
    CASE name = "viewer" -> <<PostRead>>
      [] name = "editor" -> <<PostEdit>>
      [] OTHER -> <<PostDelete>>

LevelOf(name) ==
    CASE name = "viewer" -> 10
      [] name = "editor" -> 50
      [] OTHER -> 100

\* the values of variables a specification does not use
IdleMatch ==
    /\ psegs = <<>> /\ qsegs = <<>> /\ delim = Colon
    /\ pattern = <<>> /\ permission = <<>>
    /\ mpc = "idle" /\ matchResult = FALSE

NoFrame == [state |-> "none"]

IdleEngine ==
    /\ policies = EmptyMap /\ calls = <<>> /\ last = NoFrame
    /\ decided = <<>>

IdleResolve ==
    /\ rsubject = [id |-> "", roles |-> <<>>]
    /\ rst = ResolverStart([id |-> "", roles |-> <<>>])
    /\ rpc = "idle" /\ reffective = {}

-----------------------------------------------------------------------------
(* SpecResolve: getPermissions on every generated registry and subject,     *)
(* one visited() call per step                                              *)

\* sequences without repetition
Distinct(seq) == \A i, j \in 1..Len(seq) : i # j => seq[i] # seq[j]

InheritLists == {l \in SeqsOf(RoleNames, 0, MaxInherits) : Distinct(l)}

\* the role `name` without an inherits field, and with each inherits list
GeneratedRoles(name) ==
    {[name |-> name, level |-> LevelOf(name), permissions |-> GrantOf(name)]}
    \cup
    {[name |-> name, level |-> LevelOf(name), permissions |-> GrantOf(name),
      inherits |-> inh] : inh \in InheritLists}

\* every registry whose roles are generated ones
Registries ==
    {m \in UNION {[names -> UNION {GeneratedRoles(n) : n \in RoleNames}] :
                    names \in SUBSET RoleNames} :
        \A n \in DOMAIN m : m[n].name = n}

InitResolve ==
    /\ roles \in Registries
    /\ \E rs \in SeqsOf(RoleNames, 0, MaxRoots) :
          rsubject = [id |-> "u1", roles |-> rs,
                      permissions |-> <<SpecialAction>>]
    /\ rst = ResolverStart(rsubject)
    /\ rpc = "run"
    /\ reffective = {}
    /\ IdleMatch /\ IdleEngine

\* visited(roleName): lines 69-85, called from line 80 or line 87
Visited ==
    /\ rpc = "run"
    /\ rst.stack # <<>>
    /\ rst' = VisitedCall(roles, rst)
    /\ UNCHANGED <<rsubject, rpc, reffective, roles>>
    /\ UNCHANGED <<matchVars, policies, calls, last, decided>>

\* return prms: line 89
ReturnPrms ==
    /\ rpc = "run"
    /\ rst.stack = <<>>
    /\ reffective' = rst.prms
    /\ rpc' = "done"
    /\ UNCHANGED <<rsubject, rst, roles>>
    /\ UNCHANGED <<matchVars, policies, calls, last, decided>>

NextResolve == Visited \/ ReturnPrms

SpecResolve == InitResolve /\ [][NextResolve]_vars

\* the resolution is synchronous code: it runs until it returns
SpecResolveFair == SpecResolve /\ WF_vars(NextResolve)

-----------------------------------------------------------------------------
(* SpecMatch: Permission.match on every pair of generated strings *)

PatternSegs == {<<"a">>, <<"b">>, Star, StarStar, Empty}
PermissionSegs == {<<"a">>, <<"b">>, Empty}
Delims == {Colon, Dot}

InitMatch ==
    /\ psegs \in SeqsOf(PatternSegs, 1, MaxSegs)
    /\ qsegs \in SeqsOf(PermissionSegs, 1, MaxSegs)
    /\ delim \in Delims
    /\ pattern = Join(psegs, delim)
    /\ permission = Join(qsegs, delim)
    /\ mpc = "input"
    /\ matchResult = FALSE
    /\ roles = EmptyMap /\ IdleEngine /\ IdleResolve

CallMatch ==
    /\ mpc = "input"
    /\ matchResult' = Match(pattern, permission)
    /\ mpc' = "done"
    /\ UNCHANGED <<psegs, qsegs, delim, pattern, permission>>
    /\ UNCHANGED <<engineVars, resolveVars>>

NextMatch == CallMatch

SpecMatch == InitMatch /\ [][NextMatch]_vars

-----------------------------------------------------------------------------
(* Spec: one engine, from construction on *)

\* the roles a caller registers
RoleInputs ==
    {[name |-> "viewer", level |-> LevelOf("viewer"),
      permissions |-> GrantOf("viewer")],
     [name |-> "viewer", level |-> LevelOf("viewer"),
      permissions |-> GrantOf("viewer"), inherits |-> <<"editor">>]}
    \cup
    {[name |-> "editor", level |-> LevelOf("editor"), permissions |-> ps] :
        ps \in {GrantOf("editor"), <<PostAny>>}}
    \cup
    {[name |-> "editor", level |-> LevelOf("editor"), permissions |-> ps,
      inherits |-> <<"viewer">>] :
        ps \in {GrantOf("editor"), <<PostAny>>}}
    \cup
    \* an editor that may only read
    {[name |-> "editor", level |-> LevelOf("editor"),
      permissions |-> GrantOf("viewer")]}

\* the policies a caller registers: any predicate under 'p:e', and under the
\* pattern 'p:*', which no call asks for, one that throws if it is ever called
PolicyInputs ==
    {<<PostEdit, fn>> : fn \in PolicyFns} \cup {<<PostAny, "throws">>}

Alice == [id |-> "u1", roles |-> <<"editor">>]
Bob == [id |-> "u2", roles |-> <<"ghost", "viewer">>,
        permissions |-> <<PostEdit>>]
Subjects == {Alice, Bob}

\* the permissions asked for
Requests == {PostEdit, PostRead}

\* context = {} by default
DefaultContext == <<>>
Contexts == {DefaultContext, [ownerId |-> "u1"]}

\* the context of the calls made while registrations go on: alice owns
LifecycleContexts == {[ownerId |-> "u1"]}

Slots == 1..MaxCalls

\* decided[c] belongs to the call suspended in slot c, decided[0] to last;
\* "none" where there is no call
Undecided == [c \in 0..MaxCalls |-> "none"]

Init ==
    /\ roles = EmptyMap
    /\ policies = EmptyMap
    /\ calls = [c \in Slots |-> NoFrame]
    /\ last = NoFrame
    /\ decided = Undecided
    /\ IdleMatch /\ IdleResolve

\* addRole that resolves role.inherits when it registers: the names not
\* registered at that moment are dropped
AddRoleEager(role) ==
    LET resolved == IF "inherits" \in DOMAIN role
                    THEN [role EXCEPT
                            !.inherits = SelectSeq(@, LAMBDA n : MapHas(roles, n))]
                    ELSE role
    IN  /\ roles' = MapSet(roles, role.name, resolved)
        /\ UNCHANGED <<policies, calls, last, decided, matchVars, resolveVars>>

\* addRole that, for a name already registered, appends the new permissions
\* to the registered role's instead of replacing the role
AddRoleMerging(role) ==
    LET merged == IF MapHas(roles, role.name)
                  THEN [role EXCEPT
                          !.permissions = roles[role.name].permissions \o @]
                  ELSE role
    IN  /\ roles' = MapSet(roles, role.name, merged)
        /\ UNCHANGED <<policies, calls, last, decided, matchVars, resolveVars>>

AddRole(role) ==
    /\ roles' = MapSet(roles, role.name, role)
    /\ UNCHANGED <<policies, calls, last, decided, matchVars, resolveVars>>

AddPolicy(perm, policyCallback) ==
    /\ policies' = MapSet(policies, perm, policyCallback)
    /\ UNCHANGED <<roles, calls, last, decided, matchVars, resolveVars>>

\* a call of can, up to its first return, throw or suspension; decided records
\* beside the call what the registries give it at this step (history only:
\* nothing of the engine reads it)
Can(subject, perm, context) ==
    LET frame == CanSync(roles, policies, subject, perm, context)
        expected == Expected(roles, policies, subject, perm, context)
    IN  /\ IF frame.state = "awaiting"
           THEN /\ \E c \in Slots :
                      /\ calls[c] = NoFrame
                      /\ \A d \in 1..(c - 1) : calls[d] # NoFrame
                      /\ calls' = [calls EXCEPT ![c] = frame]
                      /\ decided' = [decided EXCEPT ![c] = expected]
                /\ UNCHANGED last
           ELSE /\ last' = frame
                /\ decided' = [decided EXCEPT ![0] = expected]
                /\ UNCHANGED calls
        /\ UNCHANGED <<roles, policies, matchVars, resolveVars>>

\* a resumption that takes the completion awaited from one field of the
\* engine, which the call suspended last has overwritten
ResumeNewest(c) ==
    LET newest == CHOOSE d \in Slots :
                     /\ calls[d] # NoFrame
                     /\ \A e \in Slots : e > d => calls[e] = NoFrame
    IN  /\ calls[c] # NoFrame
        /\ last' = CanResume([calls[c] EXCEPT !.awaited = calls[newest].awaited])
        /\ calls' = [calls EXCEPT ![c] = NoFrame]
        /\ decided' = [decided EXCEPT ![0] = decided[c], ![c] = "none"]
        /\ UNCHANGED <<roles, policies, matchVars, resolveVars>>

\* the predicate's completion arrives and the call runs to its end
Resume(c) ==
    /\ calls[c] # NoFrame
    /\ last' = CanResume(calls[c])
    /\ calls' = [calls EXCEPT ![c] = NoFrame]
    /\ decided' = [decided EXCEPT ![0] = decided[c], ![c] = "none"]
    /\ UNCHANGED <<roles, policies, matchVars, resolveVars>>

Next ==
    \/ \E role \in RoleInputs : AddRole(role)
    \/ \E input \in PolicyInputs : AddPolicy(input[1], input[2])
    \/ \E subject \in Subjects, perm \in Requests, context \in LifecycleContexts :
          Can(subject, perm, context)
    \/ \E c \in Slots : Resume(c)

Spec == Init /\ [][Next]_vars

-----------------------------------------------------------------------------
(* SpecSeq: one engine whose caller awaits each can call before the next,   *)
(* registering roles and policies at any time                               *)

\* a call of can made when no other is suspended
CanAwaited(subject, perm, context) ==
    /\ \A c \in Slots : calls[c] = NoFrame
    /\ Can(subject, perm, context)

NextSeq ==
    \/ \E role \in RoleInputs : AddRole(role)
    \/ \E input \in PolicyInputs : AddPolicy(input[1], input[2])
    \/ \E subject \in Subjects, perm \in Requests, context \in LifecycleContexts :
          CanAwaited(subject, perm, context)
    \/ \E c \in Slots : Resume(c)

SpecSeq == Init /\ [][NextSeq]_vars

-----------------------------------------------------------------------------
(* SpecCan: one can call against every registry Spec can build *)

\* the contents this.roles can have
RoleRegistries ==
    {m \in UNION {[names -> RoleInputs] : names \in SUBSET {"viewer", "editor"}} :
        \A n \in DOMAIN m : m[n].name = n}

\* the contents this.policies can have
PolicyRegistries ==
    {m \in UNION {[keys -> PolicyFns] : keys \in SUBSET {PostEdit, PostAny}} :
        \A k \in DOMAIN m : <<k, m[k]>> \in PolicyInputs}

\* the subjects a caller passes
CanSubjects ==
    {[id |-> id, roles |-> rs] :
        id \in {"u1", "u2"},
        rs \in SeqsOf({"viewer", "editor", "ghost"}, 0, MaxRoots)}
    \cup
    {[id |-> id, roles |-> rs, permissions |-> ps] :
        id \in {"u1", "u2"},
        rs \in SeqsOf({"viewer", "editor", "ghost"}, 0, MaxRoots),
        ps \in {<<PostEdit>>, <<PostAny>>}}

InitCan ==
    /\ roles \in RoleRegistries
    /\ policies \in PolicyRegistries
    /\ calls = [c \in Slots |-> NoFrame]
    /\ last = NoFrame
    /\ decided = Undecided
    /\ IdleMatch /\ IdleResolve

\* the one call of a behaviour
CanOnce(subject, perm, context) ==
    /\ last = NoFrame
    /\ \A c \in Slots : calls[c] = NoFrame
    /\ Can(subject, perm, context)

NextCan ==
    \/ \E subject \in CanSubjects, perm \in Requests, context \in Contexts :
          CanOnce(subject, perm, context)
    \/ \E c \in Slots : Resume(c)

SpecCan == InitCan /\ [][NextCan]_vars

-----------------------------------------------------------------------------
(* SpecCalls: can calls in flight together, with no registration meanwhile  *)

NextCalls ==
    \/ \E subject \in Subjects, perm \in Requests, context \in Contexts :
          Can(subject, perm, context)
    \/ \E c \in Slots : Resume(c)

SpecCalls == InitCan /\ [][NextCalls]_vars

-----------------------------------------------------------------------------
(* SpecLevels: one can call against registries whose roles carry any level  *)
(* and any denies list                                                       *)

Levels == {LevelOf("viewer"), LevelOf("admin")}

\* role.denies: strings that roles of the registries grant
DenyLists == {<<PostEdit>>, <<PostRead, PostEdit>>}

\* the role with its level replaced, without and with a denies list
Relevelled(role) ==
    {[k \in DOMAIN role |-> IF k = "level" THEN l ELSE role[k]] :
        l \in Levels}
    \cup
    {[k \in DOMAIN role \cup {"denies"} |->
        IF k = "level" THEN l ELSE IF k = "denies" THEN d ELSE role[k]] :
        l \in Levels, d \in DenyLists}

LevelRegistries ==
    {m \in UNION {[names -> UNION {Relevelled(r) : r \in RoleInputs}] :
                    names \in SUBSET {"viewer", "editor"}} :
        \A n \in DOMAIN m : m[n].name = n}

InitLevels ==
    /\ roles \in LevelRegistries
    /\ policies \in PolicyRegistries
    /\ calls = [c \in Slots |-> NoFrame]
    /\ last = NoFrame
    /\ decided = Undecided
    /\ IdleMatch /\ IdleResolve

NextLevels ==
    \/ \E subject \in Subjects, perm \in Requests, context \in Contexts :
          CanOnce(subject, perm, context)
    \/ \E c \in Slots : Resume(c)

SpecLevels == InitLevels /\ [][NextLevels]_vars

-----------------------------------------------------------------------------
(* Claims about the resolver *)

\* C4: the set getPermissions returns is subject.permissions united with the
\* permissions of every registered role reachable from subject.roles along
\* inherits edges of registered roles, and nothing else
C4_EffectiveIsClosure ==
    rpc = "done" =>
        /\ reffective = EffectiveSet(roles, rsubject)
        /\ getPermissions(roles, rsubject) = EffectiveSet(roles, rsubject)

\* a subject holding only admin, with admin -> editor -> viewer, has been
\* resolved and holds viewer's permission
C4_Witness ==
    /\ rpc = "done"
    /\ rsubject.roles = <<"admin">>
    /\ DOMAIN roles = RoleNames
    /\ OptArray(roles["admin"], "inherits") = <<"editor">>
    /\ OptArray(roles["editor"], "inherits") = <<"viewer">>
    /\ "inherits" \notin DOMAIN roles["viewer"]
    /\ reffective = {SpecialAction, PostDelete, PostEdit, PostRead}

\* C5: resolution returns, and no role name passes the visitedRoles check
\* twice in one resolution, whatever cycles and diamonds the registry holds
C5_TerminatesExpandingOnce ==
    /\ [](rpc \in {"run", "done"} => Distinct(rst.expanded))
    /\ <>(rpc = "done")

\* a resolution over the cycle editor -> viewer -> editor, with editor also
\* named twice by the subject, has returned
C5_Witness ==
    /\ rpc = "done"
    /\ rsubject.roles = <<"editor", "editor">>
    /\ MapHas(roles, "editor") /\ OptArray(roles["editor"], "inherits") = <<"viewer">>
    /\ MapHas(roles, "viewer") /\ OptArray(roles["viewer"], "inherits") = <<"editor">>
    /\ rst.expanded = <<"editor", "viewer">>
    /\ reffective = {SpecialAction, PostEdit, PostRead}

\* the names of an array of roles
NamesOf(array) == [i \in 1..Len(array) |-> array[i].name]

\* C18: on every registry and subject the alternate engine's
\* resolvePermissions, which first collects the roles with resolveRoles (each
\* role pushed after its inherits, the result sorted by level, highest
\* first), gives the effective permission set getPermissions gives, and so
\* the same matchedPermission for every requested string
C18_VariantsAgree ==
    rpc = "done" =>
        LET resolvedRoles == resolveRoles(roles, rsubject.roles)
        IN  /\ resolvePermissions(roles, rsubject) = reffective
            /\ resolvePermissions(roles, rsubject) = getPermissions(roles, rsubject)
            /\ \A i, j \in 1..Len(resolvedRoles) :
                  i < j => resolvedRoles[i].level >= resolvedRoles[j].level
            /\ \A perm \in {PostRead, PostEdit, PostDelete, SpecialAction} :
                  (\E p \in resolvePermissions(roles, rsubject) : Match(p, perm))
                  <=> (\E p \in reffective : Match(p, perm))

\* over the cycle admin -> editor -> viewer -> admin, resolveRoles pushed
\* viewer first and admin last and returned them sorted, admin first; both
\* engines hold the same four permissions
C18_Witness ==
    /\ rpc = "done"
    /\ rsubject.roles = <<"admin">>
    /\ DOMAIN roles = RoleNames
    /\ OptArray(roles["admin"], "inherits") = <<"editor">>
    /\ OptArray(roles["editor"], "inherits") = <<"viewer">>
    /\ OptArray(roles["viewer"], "inherits") = <<"admin">>
    /\ NamesOf(RunVisit(roles, ResolveRolesStart(rsubject.roles)).roles)
          = <<"viewer", "editor", "admin">>
    /\ NamesOf(resolveRoles(roles, rsubject.roles)) = <<"admin", "editor", "viewer">>
    /\ rst.expanded = <<"admin", "editor", "viewer">>
    /\ resolvePermissions(roles, rsubject)
          = {SpecialAction, PostDelete, PostEdit, PostRead}
    /\ reffective = {SpecialAction, PostDelete, PostEdit, PostRead}

-----------------------------------------------------------------------------
(* Claims about can (SpecCan: the registries do not change after Init) *)

\* the calls made so far: the settled one and the suspended ones
AllFrames == ({last} \cup {calls[c] : c \in Slots}) \ {NoFrame}

\* some pattern of the effective permission set matches the request
Matched(f) ==
    \E p \in EffectiveSet(roles, f.subject) : Match(p, f.permission)

\* a policy is registered under the requested string
HasPolicy(f) == MapHas(policies, f.permission)

\* how that policy completes for the call's subject and context
Completion(f) == PolicyCall(policies[f.permission], f.subject, f.context)

\* C1: a settled call returned the 'not found' denial when no pattern of the
\* effective set matches; else {allowed: true, permission} when no policy is
\* registered under the request or the predicate yields true; else, the
\* predicate yielding false, the 'denied by policy' denial; always with the
\* requested string as permission
C1_CanResult ==
    last # NoFrame =>
        IF ~Matched(last)
        THEN /\ last.state = "returned"
             /\ last.result = <<NotFound(last.permission)>>
        ELSE IF ~HasPolicy(last) \/ Completion(last) = "true"
        THEN /\ last.state = "returned"
             /\ last.result = <<Allowed(last.permission)>>
        ELSE Completion(last) = "false" =>
             /\ last.state = "returned"
             /\ last.result = <<DeniedByPolicy(last.permission)>>

\* a call whose permission matched returned the policy's denial
C1_Witness ==
    /\ last # NoFrame
    /\ last.state = "returned"
    /\ Matched(last) /\ HasPolicy(last)
    /\ last.result = <<DeniedByPolicy(PostEdit)>>
    /\ "reason" \in DOMAIN last.result[1]

\* C2: a call has invoked the predicate registered under the requested
\* string exactly once if some pattern matched and such a predicate exists,
\* and has invoked nothing otherwise; never a predicate under another key
C2_PredicateInvocations ==
    \A f \in AllFrames :
        f.invoked = IF Matched(f) /\ HasPolicy(f)
                    THEN <<[key |-> f.permission,
                            fn |-> policies[f.permission]]>>
                    ELSE <<>>

\* a call for 'p:e', granted by the pattern 'p:*' alone, has returned after
\* one invocation of the 'p:e' predicate, with another predicate registered
\* under 'p:*'
C2_Witness ==
    /\ last # NoFrame
    /\ last.state = "returned"
    /\ last.permission = PostEdit
    /\ EffectiveSet(roles, last.subject) = {PostAny}
    /\ MapHas(policies, PostAny)
    /\ last.invoked = <<[key |-> PostEdit, fn |-> "ownerOnly"]>>

\* C3: when the permission matched and its predicate throws or rejects, the
\* call failed and returned no Authorization; a denial was returned only
\* when nothing matched or the predicate completed with false
C3_PredicateFailureFails ==
    last # NoFrame =>
        /\ (Matched(last) /\ HasPolicy(last)
              /\ Completion(last) \in {"throw", "reject"})
            => (last.state = "failed" /\ last.result = <<>>)
        /\ (last.state = "returned" /\ ~last.result[1].allowed)
            => (~Matched(last)
                  \/ (HasPolicy(last) /\ Completion(last) = "false"))

\* a call whose predicate's promise rejected has failed
C3_Witness ==
    /\ last # NoFrame
    /\ last.state = "failed"
    /\ last.awaited = "reject"
    /\ Matched(last)
    /\ policies[last.permission] = "rejects"

\* some name reachable from subject.roles is not registered
UnknownInvolved(subject) ==
    \E r \in Reach(roles, ToSet(subject.roles)) : ~MapHas(roles, r)

\* C6: an unregistered role name, among subject.roles or in an inherits
\* list, never makes the call fail: only a failing predicate does; the other
\* names still grant, and when nothing grants the call returns 'not found'
C6_UnknownRolesSkipped ==
    (last # NoFrame /\ UnknownInvolved(last.subject)) =>
        /\ last.state = "failed" =>
              (Matched(last) /\ HasPolicy(last)
                 /\ Completion(last) \in {"throw", "reject"})
        /\ ~Matched(last) =>
              (last.state = "returned"
                 /\ last.result = <<NotFound(last.permission)>>)
        /\ (Matched(last) /\ ~HasPolicy(last)) =>
              (last.state = "returned"
                 /\ last.result = <<Allowed(last.permission)>>)

\* a subject naming the unregistered 'ghost' before 'viewer', with no direct
\* permission, was allowed what viewer grants
C6_Witness ==
    /\ last # NoFrame
    /\ last.state = "returned"
    /\ last.subject.roles = <<"ghost", "viewer">>
    /\ "permissions" \notin DOMAIN last.subject
    /\ ~MapHas(roles, "ghost")
    /\ last.result = <<Allowed(PostRead)>>

\* C11: the policy a call reads is the one registered under exactly the
\* requested string; with none there, whatever is registered under other
\* strings (the granting pattern included), the call invokes nothing and is
\* allowed as it is with no policy at all
C11_ExactKeyPolicy ==
    \A f \in AllFrames :
        /\ f.policy = IF Matched(f) /\ HasPolicy(f)
                      THEN <<policies[f.permission]>> ELSE <<>>
        /\ \A i \in 1..Len(f.invoked) : f.invoked[i].key = f.permission
        /\ (Matched(f) /\ ~HasPolicy(f)) =>
              /\ f.invoked = <<>>
              /\ f = CanSync(roles, EmptyMap, f.subject, f.permission, f.context)
              /\ f.state = "returned"
              /\ f.result = <<Allowed(f.permission)>>

\* a call for 'p:e', granted by the pattern 'p:*' alone, was allowed with a
\* predicate that throws registered under 'p:*' and none under 'p:e'
C11_Witness ==
    /\ last # NoFrame
    /\ last.permission = PostEdit
    /\ EffectiveSet(roles, last.subject) = {PostAny}
    /\ DOMAIN policies = {PostAny}
    /\ policies[PostAny] = "throws"
    /\ last.invoked = <<>>
    /\ last.result = <<Allowed(PostEdit)>>

\* the one direct permission of a subject that has exactly one
TheDirect(subject) == OptArray(subject, "permissions")[1]

\* the case of C13: a settled call by a subject with no roles and exactly one
\* direct permission, with no policy registered
DirectOnly(f) ==
    /\ f # NoFrame
    /\ f.subject.roles = <<>>
    /\ Len(OptArray(f.subject, "permissions")) = 1
    /\ policies = EmptyMap

\* the string has no '*' and no '**' among its ':'-separated segments
Concrete(s) ==
    \A i \in 1..Len(Split(s, Colon)) :
        Split(s, Colon)[i] \notin {Star, StarStar}

\* C13 as stated: with empty roles, one direct permission string p and no
\* policy, the call returned allowed when p itself was requested and a
\* denial when any other string was, whatever the role registry holds
C13_DirectGrantOnly ==
    DirectOnly(last) =>
        /\ last.state = "returned"
        /\ last.result[1].allowed = (last.permission = TheDirect(last.subject))

\* C13, amended: the same for a direct permission p without wildcard segment
C13_ConcreteDirectGrantOnly ==
    (DirectOnly(last) /\ Concrete(TheDirect(last.subject))) =>
        /\ last.state = "returned"
        /\ last.permission = TheDirect(last.subject)
              => last.result = <<Allowed(last.permission)>>
        /\ last.permission # TheDirect(last.subject)
              => last.result = <<NotFound(last.permission)>>

\* a subject with no roles and the direct permission 'p:e' was denied 'p:r',
\* which the registered role viewer grants
C13_Witness ==
    /\ DirectOnly(last)
    /\ TheDirect(last.subject) = PostEdit
    /\ last.permission = PostRead
    /\ MapHas(roles, "viewer") /\ PostRead \in ToSet(roles["viewer"].permissions)
    /\ last.result = <<NotFound(PostRead)>>

-----------------------------------------------------------------------------
(* Claims about level and denies (SpecLevels) *)

\* the registry with every level set to 0 and every denies list removed: two
\* registries that differ only in levels or denies lists have the same one
Plain(rolesMap) ==
    [n \in DOMAIN rolesMap |->
       [k \in DOMAIN rolesMap[n] \ {"denies"} |->
          IF k = "level" THEN 0 ELSE rolesMap[n][k]]]

\* the request is a string some registered role lists in its denies
DeniesListed(f) ==
    \E n \in DOMAIN roles :
        f.permission \in ToSet(OptArray(roles[n], "denies"))

\* C16: every call stands, and has settled, as it does against the registry
\* stripped of levels and denies lists, so registries differing only in
\* those give the same result; a request listed in denies is allowed when a
\* pattern matches it and no policy says otherwise
C16_LevelAndDeniesIgnored ==
    /\ \A c \in Slots :
          calls[c] # NoFrame =>
              calls[c] = CanSync(Plain(roles), policies, calls[c].subject,
                                 calls[c].permission, calls[c].context)
    /\ last # NoFrame =>
          /\ last = Decide(Plain(roles), policies, last.subject,
                           last.permission, last.context)
          /\ (DeniesListed(last) /\ Matched(last) /\ ~HasPolicy(last)) =>
                last.result = <<Allowed(last.permission)>>

\* 'p:e' was allowed to a subject whose only role, editor, grants 'p:e' and
\* lists it in denies, with a level below viewer's
C16_Witness ==
    /\ last # NoFrame
    /\ last.subject = Alice
    /\ last.permission = PostEdit
    /\ MapHas(roles, "editor")
    /\ roles["editor"].permissions = <<PostEdit>>
    /\ OptArray(roles["editor"], "denies") = <<PostEdit>>
    /\ roles["editor"].level = LevelOf("viewer")
    /\ MapHas(roles, "viewer") /\ roles["viewer"].level = LevelOf("admin")
    /\ last.result = <<Allowed(PostEdit)>>

-----------------------------------------------------------------------------
(* Claims about registration (SpecSeq) *)

\* `after` is `before` with value under key, and nothing else changed
IsRewrite(before, after, key, value) ==
    /\ DOMAIN after = DOMAIN before \cup {key}
    /\ after[key] = value
    /\ \A k \in DOMAIN before \ {key} : after[k] = before[k]

\* C12: addRole(role) leaves under role.name exactly role, whatever was there,
\* and touches no other entry, so a call made next is granted through that
\* name only what role gives; addPolicy(p, f) leaves exactly f under p, and a
\* call for p made next invokes no predicate but f; registering what is
\* already registered changes nothing
C12_LastWriteWins ==
    [][/\ \A role \in RoleInputs :
             AddRole(role) =>
                 /\ IsRewrite(roles, roles', role.name, role)
                 /\ (MapHas(roles, role.name) /\ roles[role.name] = role)
                       => roles' = roles
                 /\ \A subject \in Subjects, perm \in Requests :
                       \A context \in LifecycleContexts :
                          CanSync(roles', policies', subject, perm,
                                  context).matchedPermission
                          = \E p \in EffectiveSet(
                                        [n \in DOMAIN roles \cup {role.name} |->
                                           IF n = role.name THEN role
                                           ELSE roles[n]], subject) :
                                Match(p, perm)
       /\ \A input \in PolicyInputs :
             AddPolicy(input[1], input[2]) =>
                 /\ IsRewrite(policies, policies', input[1], input[2])
                 /\ (MapHas(policies, input[1])
                       /\ policies[input[1]] = input[2])
                       => policies' = policies
                 /\ \A subject \in Subjects, context \in LifecycleContexts :
                       LET f == CanSync(roles', policies', subject, input[1],
                                        context)
                       IN  \A i \in 1..Len(f.invoked) :
                              f.invoked[i] = [key |-> input[1],
                                              fn |-> input[2]]]_vars

\* the editor who holds 'p:e' alone is the only registered role, yet alice,
\* an editor, was once allowed 'p:r': an editor registered earlier granted
\* it and has been replaced; 'p:r' is now denied to her
C12_Witness ==
    /\ DOMAIN roles = {"editor"}
    /\ roles["editor"] = [name |-> "editor", level |-> LevelOf("editor"),
                          permissions |-> <<PostEdit>>]
    /\ last # NoFrame
    /\ last.subject = Alice
    /\ last.result = <<Allowed(PostRead)>>
    /\ \A context \in LifecycleContexts :
          Decide(roles, policies, Alice, PostRead, context).result
          = <<NotFound(PostRead)>>

\* the registered roles reachable from subject.roles that name `name` in
\* their inherits
Inheritors(rolesMap, subject, name) ==
    {n \in Reach(rolesMap, ToSet(subject.roles)) \cap DOMAIN rolesMap :
        name \in ToSet(OptArray(rolesMap[n], "inherits"))}

\* C14: addRole registers a role with its inherits as given, registered names
\* or not; when it registers a name for the first time, a subject whose
\* registered roles inherit that name was, up to then, matched on what the
\* registered roles alone give, and from then on holds the new role's
\* permissions and is matched on them, the inheriting roles left as they were
C14_LazyInheritance ==
    [][\A role \in RoleInputs :
          AddRole(role) =>
              /\ OptArray(roles'[role.name], "inherits")
                    = OptArray(role, "inherits")
              /\ ~MapHas(roles, role.name) =>
                    \A subject \in Subjects :
                       Inheritors(roles, subject, role.name) # {} =>
                           /\ \A n \in Inheritors(roles, subject, role.name) :
                                 roles'[n] = roles[n]
                           /\ getPermissions(roles, subject)
                                 = EffectiveSet(roles, subject)
                           /\ ToSet(role.permissions)
                                 \subseteq getPermissions(roles', subject)
                           /\ \A perm \in Requests, context \in LifecycleContexts :
                                 LET before == CanSync(roles, policies, subject,
                                                       perm, context)
                                     after == CanSync(roles', policies', subject,
                                                      perm, context)
                                     granted == \E p \in ToSet(role.permissions) :
                                                   Match(p, perm)
                                 IN  after.matchedPermission
                                       = (before.matchedPermission \/ granted)]_vars

\* editor, who grants 'p:e' and inherits viewer, and viewer are registered;
\* alice, an editor, was denied 'p:r' by a call made earlier and is allowed
\* it by a call made now
C14_Witness ==
    /\ DOMAIN roles = {"editor", "viewer"}
    /\ roles["editor"] = [name |-> "editor", level |-> LevelOf("editor"),
                          permissions |-> <<PostEdit>>,
                          inherits |-> <<"viewer">>]
    /\ "inherits" \notin DOMAIN roles["viewer"]
    /\ last # NoFrame
    /\ last.subject = Alice
    /\ last.result = <<NotFound(PostRead)>>
    /\ \A context \in LifecycleContexts :
          Decide(roles, policies, Alice, PostRead, context).result
          = <<Allowed(PostRead)>>

-----------------------------------------------------------------------------
(* Claims about calls in flight together (SpecCalls, Spec) *)

\* C15: with calls suspended together and resumed in any order, every
\* suspended call stands as it does when made alone against the registries,
\* every settled call has the result of that call run alone, and no step
\* changes a registry
C15_ConcurrentCallsIsolated ==
    /\ [](/\ \A c \in Slots :
                calls[c] # NoFrame =>
                    calls[c] = CanSync(roles, policies, calls[c].subject,
                                       calls[c].permission, calls[c].context)
          /\ last # NoFrame =>
                /\ last = Decide(roles, policies, last.subject,
                                 last.permission, last.context)
                /\ Outcome(last) = Expected(roles, policies, last.subject,
                                            last.permission, last.context))
    /\ [][roles' = roles /\ policies' = policies]_vars

\* bob's call, suspended first, has been denied by the policy while alice's,
\* suspended after it with a predicate that yields true, is still pending
C15_Witness ==
    /\ calls[1] = NoFrame
    /\ calls[2] # NoFrame
    /\ calls[2].subject = Alice
    /\ calls[2].awaited = "true"
    /\ last # NoFrame
    /\ last.subject = Bob
    /\ last.awaited = "false"
    /\ last.result = <<DeniedByPolicy(PostEdit)>>

\* the completion a suspended call awaits when the registries gave it this
AwaitedOf(outcome) ==
    CASE outcome = "allowed" -> "true"
      [] outcome = "denied" -> "false"
      [] OTHER -> "reject"

\* C17: a call comes to what the registries gave when it was invoked,
\* whatever addRole and addPolicy did while it was suspended: a settled call
\* has that outcome, and a suspended one still holds the match and the
\* completion read then
C17_FixedAtInvocation ==
    /\ last # NoFrame => Outcome(last) = decided[0]
    /\ \A c \in Slots :
          calls[c] # NoFrame =>
              /\ decided[c] \in {"allowed", "denied", "failed"}
              /\ calls[c].matchedPermission
              /\ calls[c].awaited = AwaitedOf(decided[c])

\* alice's call for 'p:e' was suspended, then editor was replaced by one who
\* only reads and the predicate by one that rejects; resumed, the call was
\* allowed, which no call started now would be
C17_Witness ==
    /\ last # NoFrame
    /\ last.subject = Alice
    /\ last.permission = PostEdit
    /\ last.awaited = "true"
    /\ last.policy = <<"ownerOnly">>
    /\ last.result = <<Allowed(PostEdit)>>
    /\ roles["editor"].permissions = <<PostRead>>
    /\ "inherits" \notin DOMAIN roles["editor"]
    /\ MapHas(policies, PostEdit) /\ policies[PostEdit] = "rejects"
    /\ Expected(roles, policies, Alice, PostEdit, last.context) = "notfound"

-----------------------------------------------------------------------------
(* Claims about Permission.match (SpecMatch) *)

\* the index of the first '**' segment, or one past the end
FirstStarStar(segs) ==
    IF \E i \in 1..Len(segs) : segs[i] = StarStar
    THEN CHOOSE i \in 1..Len(segs) :
            segs[i] = StarStar /\ \A j \in 1..(i - 1) : segs[j] # StarStar
    ELSE Len(segs) + 1

NonEmptySegs(segs) == \A i \in 1..Len(segs) : segs[i] # Empty

\* the grammar of the specification: up to the first '**', a '*' needs a
\* segment at its index and any other segment needs an equal one; and either
\* a '**' is reached or the segment counts are equal
Grammar(p, q) ==
    LET k == FirstStarStar(p)
    IN  /\ \A i \in 1..(k - 1) :
              /\ i <= Len(q)
              /\ p[i] # Star => q[i] = p[i]
        /\ (k <= Len(p) \/ Len(p) = Len(q))

\* C7: for ':'-joined non-empty segments, match is true iff the grammar holds
C7_MatchIffGrammar ==
    (mpc = "done" /\ delim = Colon /\ NonEmptySegs(psegs) /\ NonEmptySegs(qsegs))
        => (matchResult <=> Grammar(psegs, qsegs))

\* C8: a '*' before any '**' facing an empty permission segment: no match
C8_StarNeedsNonEmpty ==
    (mpc = "done" /\ delim = Colon
       /\ \E i \in 1..Len(psegs) :
             /\ psegs[i] = Star /\ i < FirstStarStar(psegs)
             /\ i <= Len(qsegs) /\ qsegs[i] = Empty)
        => matchResult = FALSE

\* C9: with '.' as the delimiter match gives, for non-empty segments, what it
\* gives for the same segments joined by ':'
C9_DotLikeColon ==
    (mpc = "done" /\ delim = Dot /\ NonEmptySegs(psegs) /\ NonEmptySegs(qsegs))
        => matchResult = Match(Join(psegs, Colon), Join(qsegs, Colon))

\* C10: pattern and permission that agree under the grammar, with an empty
\* segment at the same index in both, match
C10_EmptySegmentLiteral ==
    (mpc = "done" /\ delim = Colon /\ Grammar(psegs, qsegs)
       /\ \E i \in 1..Len(psegs) :
             /\ i < FirstStarStar(psegs) /\ i <= Len(qsegs)
             /\ psegs[i] = Empty /\ qsegs[i] = Empty)
        => matchResult = TRUE

====
